---- MODULE Spec2Model ----
(***************************************************************************)
(* Model of msk_cdm.minio.MinioAPI (src/src/msk_cdm/minio/_minio_api.py):  *)
(* the constructor with its configuration resolution (_process_env,        *)
(* _connect) and the five object operations, running against a model of    *)
(* the object store behind the Minio client.                                *)
(***************************************************************************)
EXTENDS Integers, Sequences, FiniteSets, TLC

VARIABLES
    pc,        \* "init" before __init__ runs, then "ready" or "failed"
    ctor,      \* the keyword arguments __init__ is called with
    fs,        \* the environment files on disk: path -> dict of KEY=value
    environ,   \* os.environ (only ACCESS_KEY / SECRET_KEY matter)
    env0,      \* os.environ as it was when __init__ was called
    self,      \* the instance attributes
    ctorErr,   \* the exception __init__ raised, or None
    handles,   \* the Minio client objects created so far
    store,     \* the backend: bucket -> sequence of objects, backend order
    call       \* the last public operation: arguments, backend calls, outcome

vars == <<pc, ctor, fs, environ, env0, self, ctorErr, handles, store, call>>

None == "None"

\* ------------------------------------------------------------------------
\* Bounds
\* ------------------------------------------------------------------------
MaxObjects == 2     \* objects the store may hold in total

\* ------------------------------------------------------------------------
\* Python helpers
\* ------------------------------------------------------------------------
\* bool(v) of an Optional[str]
Truthy(v) == v # None /\ v # ""

\* os.getenv(k)
Getenv(env, k) == IF k \in DOMAIN env THEN env[k] ELSE None

\* a dict as a function on the keys it holds
EmptyDict == [k \in {} |-> None]

\* ------------------------------------------------------------------------
\* Configuration: __init__, _process_env, _connect
\* ------------------------------------------------------------------------
DefaultUrlPort == "tllihpcmind6:9000"

MainEnv == "minio.env"
SecretEnv == "secret.env"

\* dotenv_values(path): the KEY=value lines of the file, {} when missing
DotenvValues(files, path) ==
    IF path \in DOMAIN files THEN files[path] ELSE EmptyDict

\* load_dotenv(path), override=False: a variable already in os.environ keeps
\* its value, the others are set from the file
LoadDotenv(env, files, path) ==
    LET d == DotenvValues(files, path)
    IN  [k \in DOMAIN env \cup DOMAIN d |->
            IF k \in DOMAIN env THEN env[k] ELSE d[k]]

\* "if env_xxx: dict_config[KEY] = env_xxx" ignoring the environment
OverlayFileWins(dict_config, key, envval) ==
    IF key \in DOMAIN dict_config THEN dict_config
    ELSE IF Truthy(envval) THEN (key :> envval) @@ dict_config
    ELSE dict_config

\* "if env_xxx: dict_config[KEY] = env_xxx"
Overlay(dict_config, key, envval) ==
    IF Truthy(envval) THEN (key :> envval) @@ dict_config ELSE dict_config

\* the attribute assignments of _process_env, in order: <<KEY, attribute>>
ConfigFields ==
    << <<"ACCESS_KEY", "_ACCESS_KEY">>,
       <<"SECRET_KEY", "_SECRET_KEY">>,
       <<"CA_CERTS", "_ca_certs">>,
       <<"URL_PORT", "_url_port">>,
       <<"BUCKET", "_bucket">> >>

\* self._xxx = dict_config.get(KEY): a missing key leaves None, no error
RECURSIVE AssignFieldsGet(_, _, _)
AssignFieldsGet(s, dict_config, fields) ==
    IF fields = <<>> THEN [self |-> s, err |-> None]
    ELSE LET f == Head(fields)
         IN  AssignFieldsGet(
                 [s EXCEPT ![f[2]] = Getenv(dict_config, f[1])],
                 dict_config, Tail(fields))

\* the assignments taking the explicit constructor argument where one was
\* passed
RECURSIVE AssignFieldsKeepArgs(_, _, _)
AssignFieldsKeepArgs(s, dict_config, fields) ==
    IF fields = <<>> THEN [self |-> s, err |-> None]
    ELSE LET f == Head(fields)
         IN  IF f[1] \notin DOMAIN dict_config
             THEN [self |-> s, err |-> "KeyError"]
             ELSE AssignFieldsKeepArgs(
                      IF s[f[2]] = None
                      THEN [s EXCEPT ![f[2]] = dict_config[f[1]]] ELSE s,
                      dict_config, Tail(fields))

\* self._xxx = dict_config[KEY], one after the other; the first missing key
\* raises KeyError and leaves the later attributes untouched
RECURSIVE AssignFields(_, _, _)
AssignFields(s, dict_config, fields) ==
    IF fields = <<>> THEN [self |-> s, err |-> None]
    ELSE LET f == Head(fields)
         IN  IF f[1] \notin DOMAIN dict_config
             THEN [self |-> s, err |-> "KeyError"]
             ELSE AssignFields([s EXCEPT ![f[2]] = dict_config[f[1]]],
                               dict_config, Tail(fields))

\* _process_env(fname_minio_env)
ProcessEnv(s, env, files, fname_minio_env) ==
    LET dict_config == DotenvValues(files, fname_minio_env)
    IN  IF "MINIO_ENV" \notin DOMAIN dict_config
        THEN [self |-> s, environ |-> env, err |-> "KeyError"]
        ELSE LET env1 == LoadDotenv(env, files, dict_config["MINIO_ENV"])
                 d1 == Overlay(dict_config, "ACCESS_KEY",
                               Getenv(env1, "ACCESS_KEY"))
                 d2 == Overlay(d1, "SECRET_KEY", Getenv(env1, "SECRET_KEY"))
                 a == AssignFields(s, d2, ConfigFields)
             IN  [self |-> a.self, environ |-> env1, err |-> a.err]

\* the Minio(...) object _connect builds
Handle(s) ==
    [endpoint |-> s._url_port, access_key |-> s._ACCESS_KEY,
     secret_key |-> s._SECRET_KEY, secure |-> TRUE, ca_certs |-> s._ca_certs]

\* _connect(): no check of its own; libOk is whether Minio() accepted the
\* arguments
Connect(s, hs, libOk) ==
    IF libOk
    THEN [self |-> [s EXCEPT !._client = "client"],
          handles |-> Append(hs, Handle(s)), err |-> None]
    ELSE [self |-> s, handles |-> hs, err |-> "TypeError"]

\* what Minio() does with the endpoint: a missing endpoint is outside what
\* this repository decides, a given one is accepted
LibOutcomes(s) == IF s._url_port = None THEN {TRUE, FALSE} ELSE {TRUE}

\* __init__ lines 41-47
InitSelf(args) ==
    [_ACCESS_KEY |-> args.ACCESS_KEY, _SECRET_KEY |-> args.SECRET_KEY,
     _ca_certs |-> args.ca_certs, _url_port |-> args.url_port,
     _bucket |-> None, _client |-> None]

NoCall ==
    [op |-> "none", path_object |-> None, dest_path_object |-> None,
     bucket_name |-> None, dest_bucket |-> None, prefix |-> None,
     recursive |-> TRUE, backend |-> <<>>, err |-> None,
     ret |-> [tag |-> "None", val |-> <<>>], printed |-> <<>>,
     follows_save |-> FALSE]

\* __init__
Construct ==
    /\ pc = "init"
    /\ LET s0 == InitSelf(ctor)
           p == IF ctor.fname_minio_env # None
                THEN ProcessEnv(s0, environ, fs, ctor.fname_minio_env)
                ELSE [self |-> s0, environ |-> environ, err |-> None]
       IN  IF p.err # None
           THEN /\ self' = p.self
                /\ environ' = p.environ
                /\ ctorErr' = p.err
                /\ handles' = handles
                /\ pc' = "failed"
           ELSE \E libOk \in LibOutcomes(p.self) :
                  LET c == Connect(p.self, handles, libOk)
                  IN  /\ self' = c.self
                      /\ environ' = p.environ
                      /\ ctorErr' = c.err
                      /\ handles' = c.handles
                      /\ pc' = IF c.err = None THEN "ready" ELSE "failed"
    /\ UNCHANGED <<ctor, fs, env0, store, call>>

\* ------------------------------------------------------------------------
\* The object store behind self._client
\* ------------------------------------------------------------------------
Buckets == {"data", "other"}
Keys == {"a/x", "b"}
Prefixes == {None, "a/", "z"}

\* the characters of the names in use
Chars(name) ==
    CASE name = "a/x" -> <<"a", "/", "x">>
      [] name = "b" -> <<"b">>
      [] name = "a/" -> <<"a", "/">>
      [] name = "z" -> <<"z">>
      [] OTHER -> <<>>

Names == Keys \cup {"a/", "z"}

\* name.startswith(prefix); a prefix of None is the empty prefix
StartsWith(name, prefix) ==
    LET n == Chars(name)
        p == IF prefix = None THEN <<>> ELSE Chars(prefix)
    IN  Len(p) <= Len(n) /\ SubSeq(n, 1, Len(p)) = p

\* position of the first "/" of chars after position from, 0 when none
RECURSIVE NextSlash(_, _)
NextSlash(chars, from) ==
    IF from >= Len(chars) THEN 0
    ELSE IF chars[from + 1] = "/" THEN from + 1
    ELSE NextSlash(chars, from + 1)

\* the entry a non-recursive listing shows for a key: the key itself, or the
\* "directory" up to the first "/" after the prefix
TopLevel(name, prefix) ==
    LET n == Chars(name)
        plen == IF prefix = None THEN 0 ELSE Len(Chars(prefix))
        cut == NextSlash(n, plen)
    IN  IF cut = 0 THEN name
        ELSE CHOOSE d \in Names : Chars(d) = SubSeq(n, 1, cut)

SeqContains(seq, x) == \E i \in 1..Len(seq) : seq[i] = x

\* Minio.list_objects: the objects of the bucket under the prefix, in the
\* backend's order
RECURSIVE ListObjects(_, _, _)
ListObjects(objs, prefix, recursive) ==
    IF objs = <<>> THEN <<>>
    ELSE LET n == Len(objs)
             rest == ListObjects(SubSeq(objs, 1, n - 1), prefix, recursive)
             o == objs[n]
             entry == IF recursive THEN o.object_name
                      ELSE TopLevel(o.object_name, prefix)
         IN  IF ~StartsWith(o.object_name, prefix) THEN rest
             ELSE IF SeqContains(rest, [object_name |-> entry]) THEN rest
             ELSE Append(rest, [object_name |-> entry])

RECURSIVE IndexOf(_, _)
IndexOf(objs, key) ==
    IF objs = <<>> THEN 0
    ELSE IF objs[Len(objs)].object_name = key THEN Len(objs)
    ELSE IndexOf(SubSeq(objs, 1, Len(objs) - 1), key)

HasObject(st, bucket, key) == bucket \in Buckets /\ IndexOf(st[bucket], key) > 0

ObjectData(st, bucket, key) == st[bucket][IndexOf(st[bucket], key)].data

RECURSIVE SumLen(_, _)
SumLen(st, bs) ==
    IF bs = {} THEN 0
    ELSE LET b == CHOOSE x \in bs : TRUE
         IN  Len(st[b]) + SumLen(st, bs \ {b})

NumObjects(st) == SumLen(st, Buckets)

\* Minio.put_object on the store: replaces the object of that key or adds it
PutObject(st, bucket, key, data) ==
    LET i == IndexOf(st[bucket], key)
        o == [object_name |-> key, data |-> data]
    IN  IF i > 0 THEN [st EXCEPT ![bucket][i] = o]
        ELSE [st EXCEPT ![bucket] = Append(@, o)]

\* Minio.remove_object on the store: nothing to do when the key is absent
RemoveObject(st, bucket, key) ==
    LET i == IndexOf(st[bucket], key)
        objs == st[bucket]
    IN  IF i = 0 THEN st
        ELSE [st EXCEPT ![bucket] =
                 SubSeq(objs, 1, i - 1) \o SubSeq(objs, i + 1, Len(objs))]

\* what a request ends with before the store is looked at: the client
\* rejects a bucket name that is no bucket, then the transport may fail
Faults == {None, "TransportError"}
RequestErr(bucket, fault) ==
    IF bucket \notin Buckets THEN "InvalidBucket" ELSE fault

\* ------------------------------------------------------------------------
\* DataFrame.to_csv(index=False, sep=sep).encode("utf-8")
\* ------------------------------------------------------------------------
Frames ==
    { [columns |-> <<>>, rows |-> <<>>],
      [columns |-> << <<"c">> >>, rows |-> << << <<"a", ",", "b">> >> >>] }
Seps == {",", ";"}

RECURSIVE DoubleQuotes(_)
DoubleQuotes(cell) ==
    IF cell = <<>> THEN <<>>
    ELSE (IF Head(cell) = "\"" THEN <<"\"", "\"">> ELSE <<Head(cell)>>)
            \o DoubleQuotes(Tail(cell))

\* a field is quoted when it holds the separator, a quote or a line break
CsvField(cell, sep) ==
    IF \E i \in 1..Len(cell) : cell[i] \in {sep, "\"", "\n", "\r"}
    THEN <<"\"">> \o DoubleQuotes(cell) \o <<"\"">>
    ELSE cell

RECURSIVE CsvLine(_, _)
CsvLine(cells, sep) ==
    IF cells = <<>> THEN <<"\n">>
    ELSE IF Len(cells) = 1 THEN CsvField(cells[1], sep) \o <<"\n">>
    ELSE CsvField(cells[1], sep) \o <<sep>> \o CsvLine(Tail(cells), sep)

RECURSIVE CsvLines(_, _)
CsvLines(rows, sep) ==
    IF rows = <<>> THEN <<>>
    ELSE CsvLine(Head(rows), sep) \o CsvLines(Tail(rows), sep)

\* header row, then one line per row, no index column
ToCsv(df, sep) == CsvLine(df.columns, sep) \o CsvLines(df.rows, sep)

\* ------------------------------------------------------------------------
\* The five operations
\* ------------------------------------------------------------------------
\* "if self._bucket is not None: bucket_name = self._bucket"
ResolveBucket(s, bucket_name) ==
    IF s._bucket # None THEN s._bucket ELSE bucket_name

NoRet == [tag |-> "None", val |-> <<>>]

BackendCall(method) ==
    [method |-> method, bucket_name |-> None, object_name |-> None,
     source_bucket |-> None, source_object |-> None, prefix |-> None,
     recursive |-> TRUE, data |-> <<>>, length |-> 0, content_type |-> None,
     err |-> None, yielded |-> <<>>]

\* the loop with the append placed before the rest: the list comes out in
\* reverse
RECURSIVE ObjectNamesReversed(_)
ObjectNamesReversed(objs) ==
    IF objs = <<>> THEN <<>>
    ELSE ObjectNamesReversed(Tail(objs)) \o <<Head(objs).object_name>>

\* "for obj in objs: obj_list.append(obj.object_name)"
RECURSIVE ObjectNames(_)
ObjectNames(objs) ==
    IF objs = <<>> THEN <<>>
    ELSE <<Head(objs).object_name>> \o ObjectNames(Tail(objs))

\* print_list_objects(bucket_name, prefix, recursive)
PrintListObjects(s, st, bucket_name, prefix, recursive, fault) ==
    LET b == ResolveBucket(s, bucket_name)
        err == RequestErr(b, fault)
        objs == IF err = None THEN ListObjects(st[b], prefix, recursive)
                ELSE <<>>
        bc == [BackendCall("list_objects") EXCEPT
                  !.bucket_name = b, !.prefix = prefix,
                  !.recursive = recursive, !.err = err, !.yielded = objs]
    IN  [store |-> st,
         call |-> [NoCall EXCEPT
                      !.op = "print_list_objects",
                      !.bucket_name = bucket_name, !.prefix = prefix,
                      !.recursive = recursive, !.backend = <<bc>>,
                      !.err = err,
                      !.ret = IF err = None
                              THEN [tag |-> "list", val |-> ObjectNames(objs)]
                              ELSE NoRet]]

\* load_obj reading the bucket it was passed, as remove_obj does
LoadObjArgBucket(s, st, path_object, bucket_name, fault) ==
    LET b == bucket_name
        err0 == RequestErr(b, fault)
        err == IF err0 = None /\ ~HasObject(st, b, path_object)
               THEN "ObjectNotFound" ELSE err0
        bc == [BackendCall("get_object") EXCEPT
                  !.bucket_name = b, !.object_name = path_object,
                  !.err = err]
    IN  [store |-> st,
         call |-> [NoCall EXCEPT
                      !.op = "load_obj", !.path_object = path_object,
                      !.bucket_name = bucket_name, !.backend = <<bc>>,
                      !.err = err,
                      !.ret = IF err = None
                              THEN [tag |-> "stream",
                                    val |-> ObjectData(st, b, path_object)]
                              ELSE NoRet]]

\* load_obj(path_object, bucket_name)
LoadObj(s, st, path_object, bucket_name, fault) ==
    LET b == ResolveBucket(s, bucket_name)
        err0 == RequestErr(b, fault)
        err == IF err0 = None /\ ~HasObject(st, b, path_object)
               THEN "ObjectNotFound" ELSE err0
        bc == [BackendCall("get_object") EXCEPT
                  !.bucket_name = b, !.object_name = path_object,
                  !.err = err]
    IN  [store |-> st,
         call |-> [NoCall EXCEPT
                      !.op = "load_obj", !.path_object = path_object,
                      !.bucket_name = bucket_name, !.backend = <<bc>>,
                      !.err = err,
                      !.ret = IF err = None
                              THEN [tag |-> "stream",
                                    val |-> ObjectData(st, b, path_object)]
                              ELSE NoRet]]

\* save_obj(df, path_object, sep, bucket_name)
SaveObj(s, st, df, path_object, sep, bucket_name, fault) ==
    LET b == ResolveBucket(s, bucket_name)
        csv_bytes == ToCsv(df, sep)
        err == RequestErr(b, fault)
        bc == [BackendCall("put_object") EXCEPT
                  !.bucket_name = b, !.object_name = path_object,
                  !.data = csv_bytes, !.length = Len(csv_bytes),
                  !.content_type = "application/csv", !.err = err]
    IN  [store |-> IF err = None THEN PutObject(st, b, path_object, csv_bytes)
                   ELSE st,
         call |-> [NoCall EXCEPT
                      !.op = "save_obj", !.path_object = path_object,
                      !.bucket_name = bucket_name, !.backend = <<bc>>,
                      !.err = err]]

\* remove_obj with the confirmation printed whatever the outcome
RemoveObjPrintAlways(s, st, path_object, bucket_name, fault) ==
    LET err == RequestErr(bucket_name, fault)
        bc == [BackendCall("remove_object") EXCEPT
                  !.bucket_name = bucket_name, !.object_name = path_object,
                  !.err = err]
    IN  [store |-> IF err = None
                   THEN RemoveObject(st, bucket_name, path_object) ELSE st,
         call |-> [NoCall EXCEPT
                      !.op = "remove_obj", !.path_object = path_object,
                      !.bucket_name = bucket_name, !.backend = <<bc>>,
                      !.err = err,
                      !.printed = << <<bucket_name, path_object>> >>]]

\* remove_obj(path_object, bucket_name): the bucket is the argument as
\* passed, self._bucket is not consulted
RemoveObj(s, st, path_object, bucket_name, fault) ==
    LET err == RequestErr(bucket_name, fault)
        bc == [BackendCall("remove_object") EXCEPT
                  !.bucket_name = bucket_name, !.object_name = path_object,
                  !.err = err]
    IN  [store |-> IF err = None
                   THEN RemoveObject(st, bucket_name, path_object) ELSE st,
         call |-> [NoCall EXCEPT
                      !.op = "remove_obj", !.path_object = path_object,
                      !.bucket_name = bucket_name, !.backend = <<bc>>,
                      !.err = err,
                      !.printed = IF err = None
                                  THEN << <<bucket_name, path_object>> >>
                                  ELSE <<>>]]

\* copy_obj done as a read then a write, the write made even when the read
\* found nothing
CopyObjCreating(s, st, source_path_object, dest_path_object, source_bucket, dest_bucket, fault) ==
    LET sb == ResolveBucket(s, source_bucket)
        db == ResolveBucket(s, dest_bucket)
        err0 == IF RequestErr(db, fault) # None THEN RequestErr(db, fault)
                ELSE RequestErr(sb, fault)
        found == HasObject(st, sb, source_path_object)
        err == IF err0 = None /\ ~found THEN "ObjectNotFound" ELSE err0
        bc == [BackendCall("copy_object") EXCEPT
                  !.bucket_name = db, !.object_name = dest_path_object,
                  !.source_bucket = sb, !.source_object = source_path_object,
                  !.err = err]
    IN  [store |-> IF err0 = None
                   THEN PutObject(st, db, dest_path_object,
                                  IF found
                                  THEN ObjectData(st, sb, source_path_object)
                                  ELSE <<>>)
                   ELSE st,
         call |-> [NoCall EXCEPT
                      !.op = "copy_obj", !.path_object = source_path_object,
                      !.dest_path_object = dest_path_object,
                      !.bucket_name = source_bucket,
                      !.dest_bucket = dest_bucket, !.backend = <<bc>>,
                      !.err = err,
                      !.ret = IF err = None
                              THEN [tag |-> "list",
                                    val |-> <<dest_path_object, None>>]
                              ELSE NoRet]]

\* copy_obj(source_path_object, dest_path_object, source_bucket, dest_bucket)
CopyObj(s, st, source_path_object, dest_path_object, source_bucket, dest_bucket, fault) ==
    LET sb == ResolveBucket(s, source_bucket)
        db == ResolveBucket(s, dest_bucket)
        err0 == IF RequestErr(db, fault) # None THEN RequestErr(db, fault)
                ELSE RequestErr(sb, fault)
        err == IF err0 = None /\ ~HasObject(st, sb, source_path_object)
               THEN "ObjectNotFound" ELSE err0
        bc == [BackendCall("copy_object") EXCEPT
                  !.bucket_name = db, !.object_name = dest_path_object,
                  !.source_bucket = sb, !.source_object = source_path_object,
                  !.err = err]
    IN  [store |-> IF err = None
                   THEN PutObject(st, db, dest_path_object,
                                  ObjectData(st, sb, source_path_object))
                   ELSE st,
         call |-> [NoCall EXCEPT
                      !.op = "copy_obj", !.path_object = source_path_object,
                      !.dest_path_object = dest_path_object,
                      !.bucket_name = source_bucket,
                      !.dest_bucket = dest_bucket, !.backend = <<bc>>,
                      !.err = err,
                      !.ret = IF err = None
                              THEN [tag |-> "list",
                                    val |-> <<dest_path_object, None>>]
                              ELSE NoRet]]

BucketArgs == Buckets \cup {None}

Frame == UNCHANGED <<pc, ctor, fs, environ, env0, self, ctorErr, handles>>

print_list_objects(bucket_name, prefix, recursive, fault) ==
    /\ pc = "ready"
    /\ LET r == PrintListObjects(self, store, bucket_name, prefix, recursive,
                                 fault)
       IN  store' = r.store /\ call' = r.call
    /\ Frame

\* history: this read directly follows a successful save_obj of the same key
\* with the same bucket argument
FollowsSave(c) ==
    /\ call.op = "save_obj"
    /\ call.err = None
    /\ call.path_object = c.path_object
    /\ call.bucket_name = c.bucket_name

load_obj(path_object, bucket_name, fault) ==
    /\ pc = "ready"
    /\ LET r == LoadObj(self, store, path_object, bucket_name, fault)
       IN  /\ store' = r.store
           /\ call' = [r.call EXCEPT !.follows_save = FollowsSave(r.call)]
    /\ Frame

save_obj(df, path_object, sep, bucket_name, fault) ==
    /\ pc = "ready"
    /\ LET r == SaveObj(self, store, df, path_object, sep, bucket_name, fault)
       IN  /\ NumObjects(r.store) <= MaxObjects
           /\ store' = r.store /\ call' = r.call
    /\ Frame

\* remove_obj that also takes the bucket it was passed as the new default
remove_obj_rebinding(path_object, bucket_name, fault) ==
    /\ pc = "ready"
    /\ LET r == RemoveObj(self, store, path_object, bucket_name, fault)
       IN  store' = r.store /\ call' = r.call
    /\ self' = [self EXCEPT !._bucket = bucket_name]
    /\ UNCHANGED <<pc, ctor, fs, environ, env0, ctorErr, handles>>

remove_obj(path_object, bucket_name, fault) ==
    /\ pc = "ready"
    /\ LET r == RemoveObj(self, store, path_object, bucket_name, fault)
       IN  store' = r.store /\ call' = r.call
    /\ Frame

copy_obj(source_path_object, dest_path_object, source_bucket, dest_bucket, fault) ==
    /\ pc = "ready"
    /\ LET r == CopyObj(self, store, source_path_object, dest_path_object,
                        source_bucket, dest_bucket, fault)
       IN  /\ NumObjects(r.store) <= MaxObjects
           /\ store' = r.store /\ call' = r.call
    /\ Frame

\* ------------------------------------------------------------------------
\* Inputs of the configuration specification
\* ------------------------------------------------------------------------
FileValue ==
    [k \in {"MINIO_ENV", "ACCESS_KEY", "SECRET_KEY", "CA_CERTS", "URL_PORT",
            "BUCKET"} |->
        CASE k = "MINIO_ENV" -> SecretEnv
          [] k = "ACCESS_KEY" -> "fileAK"
          [] k = "SECRET_KEY" -> "fileSK"
          [] k = "CA_CERTS" -> "fileCA"
          [] k = "URL_PORT" -> "filehost:9000"
          [] k = "BUCKET" -> "data"]

RequiredKeys == {"ACCESS_KEY", "SECRET_KEY", "CA_CERTS", "URL_PORT", "BUCKET"}

\* every file made of some of the known KEY=value lines
MainFiles == {[k \in S |-> FileValue[k]] : S \in SUBSET DOMAIN FileValue}

\* the secondary file: ACCESS_KEY / SECRET_KEY lines, possibly empty values
SecretFiles ==
    UNION {[S -> {"", "secret"}] : S \in SUBSET {"ACCESS_KEY", "SECRET_KEY"}}

\* os.environ: each variable unset, set to "" or set to a value
Environs ==
    UNION {[S -> {"", "env"}] : S \in SUBSET {"ACCESS_KEY", "SECRET_KEY"}}

CtorArgs ==
    [ACCESS_KEY : {None, "argAK"}, SECRET_KEY : {None, "argSK"},
     ca_certs : {None, "argCA"}, url_port : {None, DefaultUrlPort},
     fname_minio_env : {None, MainEnv}]

EmptyStore == [b \in Buckets |-> <<>>]

InitConfig ==
    /\ pc = "init"
    /\ ctor \in CtorArgs
    /\ \E m \in MainFiles, sec \in SecretFiles :
          fs = (MainEnv :> m) @@ (SecretEnv :> sec)
    /\ environ \in Environs
    /\ env0 = environ
    /\ self = InitSelf(ctor)
    /\ ctorErr = None
    /\ handles = <<>>
    /\ store = EmptyStore
    /\ call = NoCall

NextConfig == Construct

SpecConfig == InitConfig /\ [][NextConfig]_vars

\* ------------------------------------------------------------------------
\* The client in use: constructed from explicit arguments or from a complete
\* environment file, then any sequence of operations
\* ------------------------------------------------------------------------
CompleteFile == [k \in DOMAIN FileValue |-> FileValue[k]]

Init ==
    /\ pc = "init"
    /\ ctor \in [ACCESS_KEY : {"argAK"}, SECRET_KEY : {"argSK"},
                 ca_certs : {"argCA"}, url_port : {DefaultUrlPort},
                 fname_minio_env : {None, MainEnv}]
    /\ fs = (MainEnv :> CompleteFile) @@ (SecretEnv :> EmptyDict)
    /\ environ = EmptyDict
    /\ env0 = environ
    /\ self = InitSelf(ctor)
    /\ ctorErr = None
    /\ handles = <<>>
    /\ store = EmptyStore
    /\ call = NoCall

Next ==
    \/ Construct
    \/ \E b \in BucketArgs, p \in Prefixes, r \in BOOLEAN, f \in Faults :
          print_list_objects(b, p, r, f)
    \/ \E k \in Keys, b \in BucketArgs, f \in Faults : load_obj(k, b, f)
    \/ \E df \in Frames, k \in Keys, sep \in Seps, b \in BucketArgs,
          f \in Faults : save_obj(df, k, sep, b, f)
    \/ \E k \in Keys, b \in BucketArgs, f \in Faults : remove_obj(k, b, f)
    \/ \E sk \in Keys, dk \in Keys, sb \in BucketArgs, db \in BucketArgs,
          f \in Faults : copy_obj(sk, dk, sb, db, f)

Spec == Init /\ [][Next]_vars

\* ------------------------------------------------------------------------
\* Claims about the configuration (checked under SpecConfig)
\* ------------------------------------------------------------------------
FromFile == ctor.fname_minio_env # None
MainFile == DotenvValues(fs, MainEnv)
SecondaryFile == DotenvValues(fs, SecretEnv)
CredentialKeys == {"ACCESS_KEY", "SECRET_KEY"}
AttrOf == [k \in RequiredKeys |->
              CASE k = "ACCESS_KEY" -> "_ACCESS_KEY"
                [] k = "SECRET_KEY" -> "_SECRET_KEY"
                [] k = "CA_CERTS" -> "_ca_certs"
                [] k = "URL_PORT" -> "_url_port"
                [] k = "BUCKET" -> "_bucket"]

\* C2 as stated: with a file given, a process-environment ACCESS_KEY /
\* SECRET_KEY that is set (to whatever value) is the resolved credential.
C2_AnySetValueWins ==
    (pc = "ready" /\ FromFile) =>
        \A k \in CredentialKeys :
            k \in DOMAIN env0 => self[AttrOf[k]] = env0[k]

\* C2 amended: with a file given, a process-environment ACCESS_KEY /
\* SECRET_KEY set to a non-empty value is the resolved credential, whatever
\* the file and the secondary file named by MINIO_ENV hold for that key; and
\* the variable keeps its value in the process environment.
C2_EnvPrecedence ==
    (pc = "ready" /\ FromFile) =>
        \A k \in CredentialKeys :
            Truthy(Getenv(env0, k)) =>
                /\ self[AttrOf[k]] = env0[k]
                /\ Getenv(environ, k) = env0[k]

C2_Witness ==
    /\ pc = "ready"
    /\ FromFile
    /\ Getenv(env0, "ACCESS_KEY") = "env"
    /\ Getenv(MainFile, "ACCESS_KEY") = "fileAK"
    /\ Getenv(SecondaryFile, "ACCESS_KEY") = "secret"
    /\ self._ACCESS_KEY = "env"
    /\ handles[1].access_key = "env"

\* C3 as stated: a client constructed from a file, with no ACCESS_KEY /
\* SECRET_KEY override in the process environment, resolves exactly the
\* file's values.
C3_FileValuesNoProcessOverride ==
    (pc = "ready" /\ FromFile
        /\ RequiredKeys \subseteq DOMAIN MainFile
        /\ \A k \in CredentialKeys : ~Truthy(Getenv(env0, k))) =>
        \A k \in RequiredKeys : self[AttrOf[k]] = MainFile[k]

\* C3 amended: when the file holds MINIO_ENV and the five required keys and,
\* once the secondary file is loaded, the process environment has no
\* non-empty ACCESS_KEY or SECRET_KEY, construction succeeds and the resolved
\* values and the connection are exactly the file's, whatever the explicit
\* arguments.
C3_FileValues ==
    (pc # "init" /\ FromFile
        /\ RequiredKeys \cup {"MINIO_ENV"} \subseteq DOMAIN MainFile
        /\ \A k \in CredentialKeys :
              /\ ~Truthy(Getenv(env0, k))
              /\ k \in DOMAIN env0 \/ ~Truthy(Getenv(SecondaryFile, k))) =>
        /\ pc = "ready"
        /\ \A k \in RequiredKeys : self[AttrOf[k]] = MainFile[k]
        /\ handles = << [endpoint |-> MainFile["URL_PORT"],
                         access_key |-> MainFile["ACCESS_KEY"],
                         secret_key |-> MainFile["SECRET_KEY"],
                         secure |-> TRUE,
                         ca_certs |-> MainFile["CA_CERTS"]] >>

C3_Witness ==
    /\ pc = "ready"
    /\ FromFile
    /\ ctor.ACCESS_KEY = "argAK" /\ ctor.SECRET_KEY = "argSK"
    /\ ctor.ca_certs = "argCA" /\ ctor.url_port = DefaultUrlPort
    /\ DOMAIN environ = {}
    /\ self._ACCESS_KEY = "fileAK" /\ self._SECRET_KEY = "fileSK"
    /\ self._ca_certs = "fileCA" /\ self._url_port = "filehost:9000"
    /\ self._bucket = "data"

\* the keys that have a value once the environment is laid over the file
FileResolved ==
    DOMAIN MainFile \cup
        {k \in CredentialKeys :
            Truthy(Getenv(LoadDotenv(env0, fs, SecretEnv), k))}

\* a required field that has no value after resolution
MissingRequired ==
    IF FromFile
    THEN RequiredKeys \ FileResolved # {}
    ELSE TRUE   \* no explicit argument carries the bucket

OpDone == pc = "ready" /\ call.op # "none"

\* C1: with a default bucket configured, the bucket of every backend call of
\* every operation is the default bucket (source and destination for copy).
C1_DefaultBucketUsed ==
    (OpDone /\ self._bucket # None) =>
        \A i \in 1..Len(call.backend) :
            /\ call.backend[i].bucket_name = self._bucket
            /\ call.op = "copy_obj" =>
                  call.backend[i].source_bucket = self._bucket

\* C5: a load_obj that directly follows a successful save_obj of the same
\* key with the same bucket argument addresses the (bucket, key) the save
\* stored, does not miss the object, and returns the bytes the save uploaded.
C5_WriteThenRead ==
    [][(/\ call.op = "save_obj"
        /\ call.err = None
        /\ call'.op = "load_obj"
        /\ call'.path_object = call.path_object
        /\ call'.bucket_name = call.bucket_name) =>
            /\ call'.backend[1].bucket_name = call.backend[1].bucket_name
            /\ call'.backend[1].object_name = call.backend[1].object_name
            /\ call'.err \in {None, "TransportError"}
            /\ call'.err = None =>
                  call'.ret = [tag |-> "stream", val |-> call.backend[1].data]
      ]_vars

QuotedCsv == <<"c", "\n", "\"", "a", ",", "b", "\"", "\n">>

C5_Witness ==
    /\ OpDone
    /\ call.op = "load_obj"
    /\ call.follows_save
    /\ call.err = None
    /\ call.ret.val = QuotedCsv

\* C6: a copy_obj whose source key is not in the resolved source bucket
\* fails, with ObjectNotFound once the request gets to the store, and leaves
\* every bucket as it was.
C6_CopyMissingSource ==
    [][(/\ call'.op = "copy_obj"
        /\ call'.backend[1].source_bucket \in Buckets
        /\ call'.backend[1].bucket_name \in Buckets
        /\ ~HasObject(store, call'.backend[1].source_bucket,
                      call'.path_object)) =>
            /\ call'.err \in {"ObjectNotFound", "TransportError"}
            /\ call'.ret = NoRet
            /\ store' = store
      ]_vars

C6_Witness ==
    /\ OpDone
    /\ call.op = "copy_obj"
    /\ call.err = "ObjectNotFound"
    /\ NumObjects(store) > 0
    /\ ~HasObject(store, call.backend[1].bucket_name, call.dest_path_object)

\* C7: remove_obj completes without error in the bucket list and read
\* resolve, and afterwards the key is absent from that bucket.
C7_DeleteIdempotent ==
    (OpDone /\ call.op = "remove_obj"
        /\ ResolveBucket(self, call.bucket_name) \in Buckets) =>
        /\ call.err \in {None, "TransportError"}
        /\ call.err = None =>
              ~HasObject(store, ResolveBucket(self, call.bucket_name),
                         call.path_object)

\* C8: print_list_objects asks the backend for the resolved bucket and the
\* given prefix and returns the names of the objects yielded, each once, in
\* the order yielded; when nothing is under the prefix the result is the
\* empty list and no error is raised.
C8_ListReturnsYielded ==
    (OpDone /\ call.op = "print_list_objects") =>
        LET bc == call.backend[1]
            b == ResolveBucket(self, call.bucket_name)
        IN  /\ bc.bucket_name = b
            /\ bc.prefix = call.prefix
            /\ bc.recursive = call.recursive
            /\ call.err = None =>
                  /\ call.ret.tag = "list"
                  /\ Len(call.ret.val) = Len(bc.yielded)
                  /\ \A i \in 1..Len(bc.yielded) :
                        call.ret.val[i] = bc.yielded[i].object_name
            /\ (/\ b \in Buckets
                /\ call.err # "TransportError"
                /\ \A i \in 1..Len(store[b]) :
                      ~StartsWith(store[b][i].object_name, call.prefix)) =>
                  (call.err = None /\ call.ret.val = <<>>)

C8_Witness ==
    /\ OpDone
    /\ call.op = "print_list_objects"
    /\ call.err = None
    /\ Len(call.ret.val) = 2
    /\ call.ret.val[1] # call.ret.val[2]

MethodOf ==
    [op \in {"print_list_objects", "load_obj", "save_obj", "remove_obj",
             "copy_obj"} |->
        CASE op = "print_list_objects" -> "list_objects"
          [] op = "load_obj" -> "get_object"
          [] op = "save_obj" -> "put_object"
          [] op = "remove_obj" -> "remove_object"
          [] op = "copy_obj" -> "copy_object"]

\* C9: every operation makes exactly one backend call, and when that call
\* fails the caller gets that error, no return value and, for remove_obj, no
\* confirmation printed.
C9_ErrorsPropagate ==
    OpDone =>
        /\ Len(call.backend) = 1
        /\ call.backend[1].method = MethodOf[call.op]
        /\ call.err = call.backend[1].err
        /\ call.err # None => (call.ret = NoRet /\ call.printed = <<>>)
        /\ (call.op = "remove_obj" /\ call.err = None) =>
              call.printed = << <<call.bucket_name, call.path_object>> >>

C9_Witness ==
    /\ OpDone
    /\ call.op = "remove_obj"
    /\ call.err = "TransportError"
    /\ call.printed = <<>>

\* C10: once constructed, no operation changes the instance attributes or
\* creates another client: there is exactly one, built from the resolved
\* configuration.
C10_ConfigImmutable ==
    /\ [](pc = "ready" =>
            /\ handles = <<Handle(self)>>
            /\ self._client # None)
    /\ [][pc = "ready" =>
            (pc' = "ready" /\ self' = self /\ handles' = handles)]_vars

C10_Witness ==
    /\ OpDone
    /\ call.op = "remove_obj"
    /\ call.err = None
    /\ self._bucket = "data"
    /\ call.bucket_name = "other"
    /\ handles = <<Handle(self)>>

====
